---- MODULE Spec2Model ----
(***************************************************************************)
(* Execution routing and verbosity resolution of sidekick.                 *)
(*                                                                         *)
(* Part 1 models executor.ExecuteWithFallback together with the two        *)
(* executors it drives (HTTPExecutor, OllamaExecutor) as a state machine   *)
(* whose steps are the network round trips of one call.                    *)
(* Part 2 models executor.ResolveVerbosity, ClampVerbosity and MaxTokens    *)
(* as functions of their inputs.                                           *)
(*                                                                         *)
(* Go strings that the code inspects (trimming, lower-casing, substring    *)
(* search) are sequences of one-character strings.  Go errors are          *)
(* sequences of message parts; the empty sequence is the nil error.        *)
(***************************************************************************)
EXTENDS Integers, Sequences, FiniteSets, TLC

VARIABLES
    pc,         \* position of the current ExecuteWithFallback call
    cfg,        \* the FallbackConfig of the current call
    localModel, \* local variable localModel of ExecuteWithFallback
    tag,        \* Source tag the pending local execution will carry
    calls,      \* requests issued by the current call, oldest first
    health,     \* return value of httpExec.Available() in this call
    remote,     \* return value of httpExec.Execute() in this call
    local,      \* return value of OllamaExecutor.Execute() in this call
    ret,        \* what ExecuteWithFallback returned
    installed,  \* models the local runtime lists under /api/tags
    rv,         \* the last ResolveVerbosity call: inputs and outputs
    vc,         \* the last ClampVerbosity or MaxTokens call: input and output
    stream,     \* the AskWithStreaming call: lines read, fragments, return
    kwstore,    \* rows of verbosity_escalation_keywords and the PATCH handlers in flight
    registry    \* the agents table in SQLite and Postgres, its handlers

vars == <<pc, cfg, localModel, tag, calls, health, remote, local, ret, installed, rv, vc, stream, kwstore, registry>>

fbVars == <<pc, cfg, localModel, tag, calls, health, remote, local, ret, installed>>

NoResolve ==
    [ver |-> "none",
     in  |-> [requested |-> [isNil |-> TRUE, value |-> 0], defaultLevel |-> 0,
              agentName |-> <<>>, lastUserMessage |-> <<>>, userID |-> "",
              lister |-> "nil", keywords |-> <<>>],
     out |-> [effective |-> 0, warning |-> <<>>, err |-> <<>>]]

NoCall == [fn |-> "none", in |-> 0, clamp |-> [v |-> 0, clamped |-> FALSE], tokens |-> 0]

NoStream ==
    [pc |-> "idle", onDelta |-> "nil", read |-> <<>>, fullResponse |-> <<>>,
     delivered |-> <<>>, cbErr |-> <<>>,
     ret |-> [returned |-> FALSE, reply |-> <<>>, err |-> <<>>]]

MaxPatches == 2

\* the PATCH /verbosity/keywords/{key} requests that may be in flight at once
PatchHandlers == 1..MaxPatches

\* keyword column of verbosity_escalation_keywords
KeywordKeys == {"detailed"}

NoRow == [present |-> FALSE, MinRequested |-> 0, EscalateTo |-> 0, Enabled |-> FALSE]

NoPtr == [isNil |-> TRUE, value |-> 0]

NoBoolPtr == [isNil |-> TRUE, value |-> FALSE]

IdlePatch ==
    [pc |-> "idle", keyword |-> "",
     input |-> [MinRequested |-> NoPtr, EscalateTo |-> NoPtr, Enabled |-> NoBoolPtr]]

NoKeywordStore ==
    [rows |-> [k \in KeywordKeys |-> NoRow], patch |-> [p \in PatchHandlers |-> IdlePatch]]

MaxAgentPatches == 2

\* the PATCH /api/agents/{id} requests that may be in flight at once
AgentHandlers == 1..MaxAgentPatches

\* a nil *AgentRecord, and the absent row of the agents table
NoAgent == [isNil |-> TRUE, Name |-> "", Revision |-> 0]

IdleAgentPatch == [pc |-> "idle", existing |-> NoAgent, err |-> <<>>]

IdleSync == [pc |-> "idle", agent |-> NoAgent]

\* the row of one agent id in SQLite and in Postgres, the PATCH handlers of
\* that id and the SyncToPostgres call
NoRegistry ==
    [sqlite |-> NoAgent, postgres |-> NoAgent,
     patch |-> [p \in AgentHandlers |-> IdleAgentPatch], sync |-> IdleSync]

----------------------------------------------------------------------------
(* Strings *)

Space == " "

EmptyStr == <<>>

\* strings.ToLower on one character (the letters the model uses)
ToLowerChar(c) ==
    CASE c = "A" -> "a" [] c = "B" -> "b" [] c = "C" -> "c" [] c = "D" -> "d"
      [] c = "E" -> "e" [] c = "G" -> "g" [] c = "O" -> "o" [] c = "V" -> "v"
      [] c = "X" -> "x" [] OTHER -> c

\* strings.ToLower
ToLower(s) == [i \in 1..Len(s) |-> ToLowerChar(s[i])]

\* strings.TrimSpace
TrimSpace(s) ==
    LET nonSpace == {i \in 1..Len(s) : s[i] # Space}
    IN IF nonSpace = {} THEN EmptyStr
       ELSE LET lo == CHOOSE i \in nonSpace : \A j \in nonSpace : i <= j
                hi == CHOOSE i \in nonSpace : \A j \in nonSpace : i >= j
            IN SubSeq(s, lo, hi)

\* strings.Contains
Contains(s, sub) ==
    \E i \in 0..(Len(s) - Len(sub)) : SubSeq(s, i + 1, i + Len(sub)) = sub

----------------------------------------------------------------------------
(* Errors *)

Nil == <<>>

Errorf(msg) == <<msg>>

\* fmt.Errorf("msg: %v", cause)
Wrapf(msg, cause) == <<msg>> \o cause

----------------------------------------------------------------------------
(* Local runtime: package ollama *)

DefaultModel == <<"q", "w", "e", "n", "2", ".", "5", ":", "7", "b">>

Llama == <<"l", "l", "a", "m", "a", "3">>

Mistral == <<"m", "i", "s", "t", "r", "a", "l">>

SelectedModel(override) ==
    IF TrimSpace(override) # EmptyStr THEN TrimSpace(override) ELSE DefaultModel

\* Answers of GET /api/tags as hasModel reads them
TagsResponses ==
    { [transportErr |-> TRUE,  status |-> 0,   json |-> FALSE],
      [transportErr |-> FALSE, status |-> 500, json |-> FALSE],
      [transportErr |-> FALSE, status |-> 200, json |-> FALSE],
      [transportErr |-> FALSE, status |-> 200, json |-> TRUE] }

\* hasModel: (ok, err); models is the decoded model list
hasModel(model, resp, models) ==
    IF resp.transportErr THEN [ok |-> FALSE, err |-> Errorf("tags transport error")]
    ELSE IF resp.status # 200 THEN [ok |-> FALSE, err |-> Errorf("ollama tags status")]
    ELSE IF ~resp.json THEN [ok |-> FALSE, err |-> Errorf("tags decode error")]
    ELSE [ok |-> model \in models, err |-> Nil]

\* Answers of POST /api/pull as pullModel reads them
PullResponses ==
    { [transportErr |-> TRUE,  status |-> 0],
      [transportErr |-> FALSE, status |-> 500],
      [transportErr |-> FALSE, status |-> 200] }

\* pullModel: err
pullModel(resp) ==
    IF resp.transportErr THEN Errorf("pull transport error")
    ELSE IF resp.status # 200 THEN Errorf("ollama pull status")
    ELSE Nil

LocalAnswer == "local answer"

\* Answers of POST /api/chat as AskWithOptions reads them
ChatResponses ==
    { [transportErr |-> TRUE,  json |-> FALSE, error |-> "", content |-> ""],
      [transportErr |-> FALSE, json |-> FALSE, error |-> "", content |-> ""],
      [transportErr |-> FALSE, json |-> TRUE,  error |-> "model crashed", content |-> ""],
      [transportErr |-> FALSE, json |-> TRUE,  error |-> "model crashed", content |-> LocalAnswer],
      [transportErr |-> FALSE, json |-> TRUE,  error |-> "", content |-> ""],
      [transportErr |-> FALSE, json |-> TRUE,  error |-> "", content |-> LocalAnswer] }

\* AskWithOptions: (reply, err)
AskWithOptions(resp) ==
    IF resp.transportErr THEN [reply |-> "", err |-> Errorf("chat transport error")]
    ELSE IF ~resp.json THEN [reply |-> "", err |-> Errorf("chat decode error")]
    ELSE IF resp.error # "" THEN [reply |-> "", err |-> Errorf(resp.error)]
    ELSE IF resp.content = "" THEN [reply |-> "", err |-> Errorf("no response from Ollama")]
    ELSE [reply |-> resp.content, err |-> Nil]

----------------------------------------------------------------------------
(* Remote peer: HTTPExecutor *)

PeerURL == "http://peer"

\* Answers of GET {baseURL}/health; a timeout is a transport error
HealthResponses ==
    { [transportErr |-> TRUE,  status |-> 0],
      [transportErr |-> FALSE, status |-> 503],
      [transportErr |-> FALSE, status |-> 200] }

\* Available reporting a non-200 status without an error
AvailableSilentStatus(resp) ==
    IF resp.transportErr THEN [ok |-> FALSE, err |-> Errorf("health transport error")]
    ELSE IF resp.status # 200 THEN [ok |-> FALSE, err |-> Nil]
    ELSE [ok |-> TRUE, err |-> Nil]

\* HTTPExecutor.Available: (ok, err)
Available(resp) ==
    IF resp.transportErr THEN [ok |-> FALSE, err |-> Errorf("health transport error")]
    ELSE IF resp.status # 200 THEN [ok |-> FALSE, err |-> Errorf("health check status")]
    ELSE [ok |-> TRUE, err |-> Nil]

RemoteAnswer == "remote answer"

\* Answers of POST {baseURL}/execute
ExecuteResponses ==
    { [transportErr |-> TRUE,  status |-> 0,   json |-> FALSE, reply |-> ""],
      [transportErr |-> FALSE, status |-> 500, json |-> FALSE, reply |-> ""],
      [transportErr |-> FALSE, status |-> 200, json |-> FALSE, reply |-> ""],
      [transportErr |-> FALSE, status |-> 200, json |-> TRUE,  reply |-> ""],
      [transportErr |-> FALSE, status |-> 200, json |-> TRUE,  reply |-> RemoteAnswer] }

\* Execute accepting an empty reply of the peer
HTTPExecuteAcceptsEmpty(resp) ==
    IF resp.transportErr THEN [reply |-> "", err |-> Errorf("execute transport error")]
    ELSE IF resp.status # 200 THEN [reply |-> "", err |-> Errorf("http executor error")]
    ELSE IF ~resp.json THEN [reply |-> "", err |-> Errorf("execute decode error")]
    ELSE [reply |-> resp.reply, err |-> Nil]

\* HTTPExecutor.Execute: (reply, err)
HTTPExecute(resp) ==
    IF resp.transportErr THEN [reply |-> "", err |-> Errorf("execute transport error")]
    ELSE IF resp.status # 200 THEN [reply |-> "", err |-> Errorf("http executor error")]
    ELSE IF ~resp.json THEN [reply |-> "", err |-> Errorf("execute decode error")]
    ELSE IF resp.reply = "" THEN [reply |-> "", err |-> Errorf("empty reply")]
    ELSE [reply |-> resp.reply, err |-> Nil]

----------------------------------------------------------------------------
(* Verbosity policy *)

minVerbosity == 0

maxVerbosity == 5

\* ClampVerbosity that lets values under minVerbosity through
ClampVerbosityNoLower(value) ==
    IF value > maxVerbosity THEN [v |-> maxVerbosity, clamped |-> TRUE]
    ELSE [v |-> value, clamped |-> FALSE]

\* ClampVerbosity: (value, clamped)
ClampVerbosity(value) ==
    IF value < minVerbosity THEN [v |-> minVerbosity, clamped |-> TRUE]
    ELSE IF value > maxVerbosity THEN [v |-> maxVerbosity, clamped |-> TRUE]
    ELSE [v |-> value, clamped |-> FALSE]

\* MaxTokens, the revision in which level 5 has a budget of its own
MaxTokensBudget(verbosity) ==
    CASE verbosity = 0 -> 128
      [] verbosity = 1 -> 256
      [] verbosity = 2 -> 768
      [] verbosity = 3 -> 2048
      [] verbosity = 4 -> 4096
      [] verbosity = 5 -> 8192
      [] OTHER -> 768

\* MaxTokens: -1 for level 5, "no cap"
MaxTokens(verbosity) ==
    CASE verbosity = 0 -> 128
      [] verbosity = 1 -> 256
      [] verbosity = 2 -> 512
      [] verbosity = 3 -> 2048
      [] verbosity = 4 -> 8192
      [] verbosity = 5 -> 0 - 1
      [] OTHER -> 512

----------------------------------------------------------------------------
(* ExecuteWithFallback *)

NoProfile == [isNil |-> TRUE, LocalModel |-> EmptyStr]

Profiles == {NoProfile, [isNil |-> FALSE, LocalModel |-> Mistral]}

\* cfg.Verbosity: the levels, and one value on either side of them
Verbosities == (minVerbosity - 1)..(maxVerbosity + 1)

\* The FallbackConfig values a caller may pass
Configs ==
    [Verbosity     : Verbosities,
     ModelOverride : {EmptyStr, <<Space>>, Llama},
     RemoteURL     : {"", PeerURL},
     LocalOnly     : BOOLEAN,
     RemoteOnly    : BOOLEAN,
     Profile       : Profiles]

NoPair == [called |-> FALSE, reply |-> "", err |-> Nil]

NoHealth ==
    [called |-> FALSE, ok |-> FALSE, err |-> Nil,
     resp |-> [transportErr |-> FALSE, status |-> 0]]

NoRemote ==
    [called |-> FALSE, reply |-> "", err |-> Nil,
     resp |-> [transportErr |-> FALSE, status |-> 0, json |-> FALSE, reply |-> ""]]

NoRet == [returned |-> FALSE, Reply |-> "", Source |-> "", err |-> Nil]

\* var options map[string]int, and what omitempty leaves out of the request
NoOptions == [isNil |-> TRUE, num_predict |-> 0]

Request(op, model, options) == [op |-> op, model |-> model, options |-> options]

\* options of the executor that maps verbosity 0..3 to num_predict itself
OptionsNumPredict(Verbosity) ==
    IF Verbosity >= 0 /\ Verbosity <= 3
    THEN [isNil |-> FALSE,
          num_predict |-> CASE Verbosity = 0 -> 512
                            [] Verbosity = 1 -> 1024
                            [] Verbosity = 2 -> 2048
                            [] OTHER -> 4096]
    ELSE NoOptions

\* options of the executor that caps tokens by MaxTokens
Options(Verbosity) ==
    IF Verbosity >= 0 /\ Verbosity <= 4
    THEN [isNil |-> FALSE, num_predict |-> MaxTokens(Verbosity)]
    ELSE NoOptions

\* localModel := cfg.ModelOverride; the profile's model when no override
LocalModelOf(c) ==
    IF ~c.Profile.isNil /\ c.ModelOverride = EmptyStr
    THEN c.Profile.LocalModel
    ELSE c.ModelOverride

\* return ExecutionResult{Reply: reply, Source: source}, err
Returns(reply, source, err) ==
    /\ ret' = [returned |-> TRUE, Reply |-> reply, Source |-> source, err |-> err]
    /\ pc' = "done"

\* (&OllamaExecutor{Model: localModel}).Execute(messages) is entered:
\* its first round trip is the model list query of EnsureModel
EnterLocal(source) ==
    /\ pc' = "tags"
    /\ tag' = source
    /\ UNCHANGED ret

\* LocalReturns reporting the earlier remote error instead of the local one
LocalReturnsEarlierError(r) ==
    /\ local' = [called |-> TRUE, reply |-> r.reply, err |-> r.err]
    /\ Returns(r.reply, tag, IF r.err # Nil /\ remote.err # Nil THEN remote.err ELSE r.err)

\* OllamaExecutor.Execute returned r; ExecuteWithFallback returns it tagged
LocalReturns(r) ==
    /\ local' = [called |-> TRUE, reply |-> r.reply, err |-> r.err]
    /\ Returns(r.reply, tag, r.err)

Init ==
    /\ pc = "idle"
    /\ cfg = [Verbosity |-> 0, ModelOverride |-> EmptyStr, RemoteURL |-> "", LocalOnly |-> FALSE,
              RemoteOnly |-> FALSE, Profile |-> NoProfile]
    /\ localModel = EmptyStr
    /\ tag = ""
    /\ calls = <<>>
    /\ health = NoHealth
    /\ remote = NoRemote
    /\ local = NoPair
    /\ ret = NoRet
    /\ installed = {}
    /\ rv = NoResolve
    /\ vc = NoCall
    /\ stream = NoStream
    /\ kwstore = NoKeywordStore
    /\ registry = NoRegistry

\* Route letting RemoteOnly override LocalOnly
RouteRemoteOnlyWins(c) ==
    IF c.LocalOnly /\ ~c.RemoteOnly THEN "local"
    ELSE IF c.RemoteURL = ""
    THEN IF c.RemoteOnly THEN "configError" ELSE "local"
    ELSE "remote"

\* Route without the configuration error
RouteNoConfigError(c) ==
    IF c.LocalOnly THEN "local"
    ELSE IF c.RemoteURL = "" THEN "local"
    ELSE "remote"

\* The branch taken before any round trip: forced local, no remote
\* configured (local, or a configuration error), or try the remote peer
Route(c) ==
    IF c.LocalOnly THEN "local"
    ELSE IF c.RemoteURL = ""
    THEN IF c.RemoteOnly THEN "configError" ELSE "local"
    ELSE "remote"

\* A caller invokes ExecuteWithFallback(c, messages): the code up to the
\* first round trip
ExecuteWithFallback(c) ==
    /\ pc \in {"idle", "done"}
    /\ cfg' = c
    /\ localModel' = LocalModelOf(c)
    /\ calls' = <<>>
    /\ health' = NoHealth
    /\ remote' = NoRemote
    /\ local' = NoPair
    /\ CASE Route(c) = "local" ->
              /\ pc' = "tags"
              /\ tag' = "local"
              /\ ret' = NoRet
         [] Route(c) = "configError" ->
              /\ ret' = [returned |-> TRUE, Reply |-> "", Source |-> "",
                         err |-> Errorf("remote execution requested but no remote is configured")]
              /\ pc' = "done"
              /\ tag' = ""
         [] OTHER ->
              /\ pc' = "health"
              /\ tag' = ""
              /\ ret' = NoRet
    /\ UNCHANGED <<installed, rv, vc, stream, kwstore, registry>>

\* OnUnhealthy going on to the remote execute call
OnUnhealthyTriesRemote(healthErr) ==
    /\ pc' = "execute"
    /\ UNCHANGED <<tag, ret>>

\* OnUnhealthy falling back without looking at RemoteOnly
OnUnhealthyIgnoresRemoteOnly(healthErr) ==
    EnterLocal("fallback")

\* The probe did not report healthy: fail when remote-only, else go local
OnUnhealthy(healthErr) ==
    IF healthErr # Nil
    THEN IF cfg.RemoteOnly
         THEN /\ Returns("", "", Wrapf("remote execution requested but health check failed", healthErr))
              /\ UNCHANGED tag
         ELSE EnterLocal("fallback")
    ELSE IF cfg.RemoteOnly
         THEN /\ Returns("", "", Errorf("remote execution requested but health check failed"))
              /\ UNCHANGED tag
         ELSE EnterLocal("fallback")

\* ok, healthErr := httpExec.Available() and the branch on its result
ProbeRemote(resp) ==
    /\ pc = "health"
    /\ calls' = Append(calls, Request("health", EmptyStr, NoOptions))
    /\ LET a == Available(resp)
       IN /\ health' = [called |-> TRUE, ok |-> a.ok, err |-> a.err, resp |-> resp]
          /\ IF a.ok
             THEN /\ pc' = "execute"
                  /\ UNCHANGED <<tag, ret>>
             ELSE OnUnhealthy(a.err)
    /\ UNCHANGED <<cfg, localModel, remote, local, installed, rv, vc, stream, kwstore, registry>>

\* OnRemoteFailed with no fallback
OnRemoteFailedAlwaysFatal(err) ==
    /\ Returns("", "", err)
    /\ UNCHANGED tag

\* The remote execute call returned an error after a healthy probe
OnRemoteFailed(err) ==
    IF cfg.RemoteOnly
    THEN /\ Returns("", "", err)
         /\ UNCHANGED tag
    ELSE EnterLocal("fallback")

\* OnRemoteSucceeded with the tag of the fallback path
OnRemoteSucceededTaggedFallback(reply) ==
    /\ Returns(reply, "fallback", Nil)
    /\ UNCHANGED tag

\* The remote execute call succeeded
OnRemoteSucceeded(reply) ==
    /\ Returns(reply, "remote", Nil)
    /\ UNCHANGED tag

\* RemoteExecute trying the peer a second time after a first failure
RemoteExecuteRetriesOnce(resp) ==
    /\ pc = "execute"
    /\ calls' = Append(calls, Request("execute", EmptyStr, NoOptions))
    /\ LET r == HTTPExecute(resp)
       IN /\ remote' = [called |-> TRUE, reply |-> r.reply, err |-> r.err, resp |-> resp]
          /\ IF r.err = Nil
             THEN OnRemoteSucceeded(r.reply)
             ELSE IF ~remote.called
             THEN /\ pc' = "execute"
                  /\ UNCHANGED <<tag, ret>>
             ELSE OnRemoteFailed(r.err)
    /\ UNCHANGED <<cfg, localModel, health, local, installed, rv, vc, stream, kwstore, registry>>

\* reply, err := httpExec.Execute(messages) and the branch on its result
RemoteExecute(resp) ==
    /\ pc = "execute"
    /\ calls' = Append(calls, Request("execute", EmptyStr, NoOptions))
    /\ LET r == HTTPExecute(resp)
       IN /\ remote' = [called |-> TRUE, reply |-> r.reply, err |-> r.err, resp |-> resp]
          /\ IF r.err = Nil
             THEN OnRemoteSucceeded(r.reply)
             ELSE OnRemoteFailed(r.err)
    /\ UNCHANGED <<cfg, localModel, health, local, installed, rv, vc, stream, kwstore, registry>>

\* EnsureModel going on to the chat without pulling a model that is not listed
EnsureModelSkipsPull(resp) ==
    /\ pc = "tags"
    /\ LET name == SelectedModel(SelectedModel(localModel))
           h == hasModel(name, resp, installed)
       IN /\ calls' = Append(calls, Request("tags", EmptyStr, NoOptions))
          /\ IF h.err # Nil
             THEN LocalReturns([reply |-> "", err |-> h.err])
             ELSE /\ pc' = "chat"
                  /\ UNCHANGED <<ret, local>>
    /\ UNCHANGED <<cfg, localModel, tag, health, remote, installed, rv, vc, stream, kwstore, registry>>

\* OllamaExecutor.Execute up to the end of hasModel inside EnsureModel
EnsureModel(resp) ==
    /\ pc = "tags"
    /\ LET name == SelectedModel(SelectedModel(localModel))
           h == hasModel(name, resp, installed)
       IN /\ calls' = Append(calls, Request("tags", EmptyStr, NoOptions))
          /\ IF h.err # Nil
             THEN LocalReturns([reply |-> "", err |-> h.err])
             ELSE IF h.ok
             THEN /\ pc' = "chat"
                  /\ UNCHANGED <<ret, local>>
             ELSE /\ pc' = "pull"
                  /\ UNCHANGED <<ret, local>>
    /\ UNCHANGED <<cfg, localModel, tag, health, remote, installed, rv, vc, stream, kwstore, registry>>

\* the pullModel round trip of EnsureModel
PullModel(resp) ==
    /\ pc = "pull"
    /\ LET name == SelectedModel(SelectedModel(localModel))
           e == pullModel(resp)
       IN /\ calls' = Append(calls, Request("pull", name, NoOptions))
          /\ IF e # Nil
             THEN /\ LocalReturns([reply |-> "", err |-> e])
                  /\ UNCHANGED installed
             ELSE /\ pc' = "chat"
                  /\ installed' = installed \cup {name}
                  /\ UNCHANGED <<ret, local>>
    /\ UNCHANGED <<cfg, localModel, tag, health, remote, rv, vc, stream, kwstore, registry>>

\* the chat round trip: ollama.AskWithOptions(model, messages, options)
LocalChat(resp) ==
    /\ pc = "chat"
    /\ calls' = Append(calls, Request("chat", SelectedModel(localModel), Options(cfg.Verbosity)))
    /\ LocalReturns(AskWithOptions(resp))
    /\ UNCHANGED <<cfg, localModel, tag, health, remote, installed, rv, vc, stream, kwstore, registry>>

\* the chat round trip of the executor with its own num_predict table
LocalChatNumPredict(resp) ==
    /\ pc = "chat"
    /\ calls' = Append(calls, Request("chat", SelectedModel(localModel),
                                      OptionsNumPredict(cfg.Verbosity)))
    /\ LocalReturns(AskWithOptions(resp))
    /\ UNCHANGED <<cfg, localModel, tag, health, remote, installed, rv, vc, stream, kwstore, registry>>

Next ==
    \/ \E c \in Configs : ExecuteWithFallback(c)
    \/ \E resp \in HealthResponses : ProbeRemote(resp)
    \/ \E resp \in ExecuteResponses : RemoteExecute(resp)
    \/ \E resp \in TagsResponses : EnsureModel(resp)
    \/ \E resp \in PullResponses : PullModel(resp)
    \/ \E resp \in ChatResponses : LocalChat(resp)
    \/ \E resp \in ChatResponses : LocalChatNumPredict(resp)

Spec == Init /\ [][Next]_vars

----------------------------------------------------------------------------
(* Properties of ExecuteWithFallback *)

Issued(op) == \E i \in 1..Len(calls) : calls[i].op = op

Count(op) == Cardinality({i \in 1..Len(calls) : calls[i].op = op})

LocalOps == {"tags", "pull", "chat"}

RemoteOps == {"health", "execute"}

LocalStages == {"tags", "pull", "chat"}

\* some request went to the local runtime, or one is about to
LocalInvoked == (\E i \in 1..Len(calls) : calls[i].op \in LocalOps) \/ pc \in LocalStages

RemoteContacted == \E i \in 1..Len(calls) : calls[i].op \in RemoteOps

Active == pc # "idle"

Done == pc = "done" /\ ret.returned

\* the local executor ran to its end and succeeded
LocalSucceeded == Done /\ local.called /\ local.err = Nil

AutoMode == Active /\ cfg.RemoteURL # "" /\ ~cfg.LocalOnly /\ ~cfg.RemoteOnly

ProbeUnhealthy == health.called /\ ~health.ok

RemoteFailed == health.called /\ health.ok /\ remote.called /\ remote.err # Nil

\* C1: with a remote URL and neither mode forced, an unhealthy probe is
\* followed by the local execution and never by a remote execute call, and
\* a local success is returned with source "fallback" and no error.
C1_UnhealthyProbeFallsBack ==
    (AutoMode /\ ProbeUnhealthy) =>
        /\ ~Issued("execute")
        /\ pc \in LocalStages \cup {"done"}
        /\ Done => local.called /\ Issued("tags")
        /\ LocalSucceeded =>
              /\ ret.Source = "fallback"
              /\ ret.err = Nil
              /\ ret.Reply = local.reply

C1_Witness ==
    /\ AutoMode /\ ProbeUnhealthy /\ LocalSucceeded
    /\ health.err = Errorf("health check status")
    /\ ret.Source = "fallback"

\* C2: with a remote URL and neither mode forced, a failed remote execute
\* call after a healthy probe is followed by the local execution, and a
\* local success is returned with source "fallback", the local runtime's
\* output as reply, and no error.
C2_RemoteFailureFallsBack ==
    (AutoMode /\ RemoteFailed) =>
        /\ pc \in LocalStages \cup {"done"}
        /\ Done => local.called /\ Issued("tags")
        /\ LocalSucceeded =>
              /\ ret.Source = "fallback"
              /\ ret.err = Nil
              /\ ret.Reply = local.reply
              /\ ret.Reply = LocalAnswer

C2_Witness ==
    /\ AutoMode /\ RemoteFailed /\ LocalSucceeded
    /\ remote.err = Errorf("http executor error")
    /\ ret.Reply = LocalAnswer

\* C3: with LocalOnly set (whatever RemoteURL and RemoteOnly are) only the
\* local runtime is used: no health probe, no remote execute call, and a
\* successful result is tagged "local".
C3_LocalOnlyNeverTouchesRemote ==
    (Active /\ cfg.LocalOnly) =>
        /\ ~RemoteContacted
        /\ ~health.called /\ ~remote.called
        /\ pc \in LocalStages \cup {"done"}
        /\ Done => local.called
        /\ (Done /\ ret.err = Nil) => ret.Source = "local" /\ ret.Reply = local.reply

C3_Witness ==
    /\ cfg.LocalOnly /\ cfg.RemoteOnly /\ cfg.RemoteURL = PeerURL
    /\ LocalSucceeded /\ ret.Source = "local"

ConfigError == Errorf("remote execution requested but no remote is configured")

\* C4: an empty RemoteURL with RemoteOnly set and LocalOnly clear gives a
\* configuration error and not a single request to any executor.
C4_RemoteOnlyWithoutURL ==
    (Active /\ cfg.RemoteURL = "" /\ cfg.RemoteOnly /\ ~cfg.LocalOnly) =>
        /\ Done
        /\ ret.err = ConfigError
        /\ calls = <<>>
        /\ ~health.called /\ ~remote.called /\ ~local.called

C4_Witness ==
    /\ Done /\ cfg.RemoteURL = "" /\ cfg.RemoteOnly /\ ~cfg.LocalOnly
    /\ ret.err = ConfigError

HealthCheckError(cause) ==
    Wrapf("remote execution requested but health check failed", cause)

\* C5: with RemoteOnly set and LocalOnly clear the local runtime is never
\* invoked; an unhealthy probe gives a health-check error and a failed
\* remote execute call gives that call's error.
C5_RemoteOnlyNeverLocal ==
    (Active /\ cfg.RemoteOnly /\ ~cfg.LocalOnly) =>
        /\ ~LocalInvoked
        /\ ~local.called
        /\ ProbeUnhealthy =>
              /\ Done
              /\ ret.err = HealthCheckError(health.err)
              /\ ~Issued("execute")
        /\ RemoteFailed =>
              /\ Done
              /\ ret.err = remote.err

C5_Witness ==
    /\ cfg.RemoteOnly /\ ~cfg.LocalOnly /\ Done
    /\ ProbeUnhealthy /\ health.err = Errorf("health transport error")
    /\ ret.err = HealthCheckError(health.err)

C5_WitnessRemoteError ==
    /\ cfg.RemoteOnly /\ ~cfg.LocalOnly /\ Done
    /\ RemoteFailed /\ ret.err = Errorf("empty reply")

\* C6: with a remote URL and LocalOnly clear, a healthy probe followed by a
\* successful remote execute call returns the peer's reply with source
\* "remote" and no error, and the local runtime is never invoked.
C6_RemoteSuccess ==
    (Active /\ cfg.RemoteURL # "" /\ ~cfg.LocalOnly
       /\ health.called /\ health.ok /\ remote.called /\ remote.err = Nil) =>
        /\ Done
        /\ ret.Reply = remote.reply
        /\ ret.Reply = RemoteAnswer
        /\ ret.Source = "remote"
        /\ ret.err = Nil
        /\ ~LocalInvoked /\ ~local.called

C6_Witness ==
    /\ Done /\ cfg.RemoteURL = PeerURL /\ ~cfg.LocalOnly
    /\ health.ok /\ remote.called /\ remote.err = Nil
    /\ ret.Source = "remote" /\ ret.Reply = RemoteAnswer

SourceTags == {"local", "remote", "fallback"}

\* C7: every return of ExecuteWithFallback is either a non-empty reply with
\* a source tag and a nil error, or an error with no source tag on the
\* result.
C7_ResultOrError ==
    Done =>
        \/ ret.err = Nil /\ ret.Reply # "" /\ ret.Source \in SourceTags
        \/ ret.err # Nil /\ ret.Source = ""

LastCall == calls[Len(calls)]

\* C8: a failure of the local executor is what ExecuteWithFallback returns:
\* the call is over, the error is the local one and not an earlier remote
\* one, the local steps ran once each, and no remote request follows a
\* local one.
C8_LocalFailureIsFinal ==
    (Active /\ local.called /\ local.err # Nil) =>
        /\ Done
        /\ ret.err = local.err
        /\ ret.err # health.err /\ ret.err # HealthCheckError(health.err)
        /\ ret.err # remote.err
        /\ Count("tags") = 1 /\ Count("pull") <= 1 /\ Count("chat") <= 1
        /\ LastCall.op \in LocalOps
        /\ \A i, j \in 1..Len(calls) :
              (i < j /\ calls[i].op \in LocalOps) => calls[j].op \in LocalOps

C8_Witness ==
    /\ Done /\ local.called /\ local.err = Errorf("ollama pull status")
    /\ remote.called /\ remote.err # Nil
    /\ ret.err = local.err

----------------------------------------------------------------------------
(* ResolveVerbosity *)

GoDev == <<"g", "o", "-", "d", "e", "v">>

GoArchitect == <<"g", "o", "-", "a", "r", "c", "h", "i", "t", "e", "c", "t">>

Fitness == <<"f", "i", "t", "n", "e", "s", "s">>

\* agentBaselineBias comparing the name as given
agentBaselineBiasExact(agentName) ==
    CASE agentName = GoDev -> 1
      [] agentName = GoArchitect -> 2
      [] agentName = Fitness -> 0
      [] OTHER -> 0

agentBaselineBias(agentName) ==
    LET n == TrimSpace(ToLower(agentName))
    IN CASE n = GoDev -> 1
         [] n = GoArchitect -> 2
         [] n = Fitness -> 0
         [] OTHER -> 0

\* A warning is the sequence of its "; "-separated parts
joinWarning(existing, next) ==
    IF existing = <<>> THEN next
    ELSE IF next = <<>> THEN existing
    ELSE existing \o next

\* fmt.Sprintf("verbosity %d clamped to %d", from, to)
ClampWarning(from, to) == <<[kind |-> "clamped", from |-> from, to |-> to]>>

\* fmt.Sprintf("... auto-escalated from %d to %d ...", from, to)
EscalationWarning(from, to) == <<[kind |-> "auto-escalated", from |-> from, to |-> to]>>

ListError == Errorf("list verbosity keywords")

\* the list error returned as no error, the level 0 with it
ListFailedSwallowed(warning) ==
    [effective |-> 0, warning |-> warning, err |-> Nil]

\* return 0, warning, err
ListFailed(warning) ==
    [effective |-> 0, warning |-> warning, err |-> ListError]

\* requestedValue after the first clamp, with the clamp warning
RequestedValue(requested, defaultLevel) ==
    LET raw == IF requested.isNil THEN defaultLevel ELSE requested.value
        c == ClampVerbosity(raw)
    IN [value   |-> IF c.clamped THEN c.v ELSE raw,
        warning |-> IF c.clamped THEN ClampWarning(raw, c.v) ELSE <<>>]

\* BiasedVerbosity that leaves the agent's bias out
BiasedVerbosityNoBias(requestedValue, agentName) ==
    requestedValue

\* biasedVerbosity
BiasedVerbosity(requestedValue, agentName) ==
    LET bias == agentBaselineBias(agentName)
    IN IF bias > 0 /\ requestedValue + bias > requestedValue
       THEN requestedValue + bias
       ELSE requestedValue

\* ConsultsKeywords testing the message without trimming it
ConsultsKeywordsUntrimmed(lister, lastUserMessage) ==
    lister # "nil" /\ lastUserMessage # EmptyStr

\* keywordStore != nil && strings.TrimSpace(lastUserMessage) != ""
ConsultsKeywords(lister, lastUserMessage) ==
    lister # "nil" /\ TrimSpace(lastUserMessage) # EmptyStr

\* ScanFirst taking the first keyword's EscalateTo without comparing it
RECURSIVE ScanFirstUnguarded(_, _, _, _, _)
ScanFirstUnguarded(keywords, i, requestedValue, lowered, biasedVerbosity) ==
    IF i > Len(keywords)
    THEN [effective |-> biasedVerbosity, autoEscalated |-> FALSE]
    ELSE LET kw == keywords[i]
         IN IF \/ ~kw.Enabled
               \/ requestedValue < kw.MinRequested
               \/ kw.Keyword = EmptyStr
               \/ ~Contains(lowered, ToLower(kw.Keyword))
            THEN ScanFirstUnguarded(keywords, i + 1, requestedValue, lowered, biasedVerbosity)
            ELSE [effective |-> kw.EscalateTo,
                  autoEscalated |-> kw.EscalateTo > biasedVerbosity]

\* The keyword loop of internal/executor/verbosity_escalation.go: the first
\* keyword that is enabled, applicable and contained decides, then break
RECURSIVE ScanFirst(_, _, _, _, _)
ScanFirst(keywords, i, requestedValue, lowered, biasedVerbosity) ==
    IF i > Len(keywords)
    THEN [effective |-> biasedVerbosity, autoEscalated |-> FALSE]
    ELSE LET kw == keywords[i]
         IN IF ~kw.Enabled
            THEN ScanFirst(keywords, i + 1, requestedValue, lowered, biasedVerbosity)
            ELSE IF requestedValue < kw.MinRequested
            THEN ScanFirst(keywords, i + 1, requestedValue, lowered, biasedVerbosity)
            ELSE IF kw.Keyword = EmptyStr
            THEN ScanFirst(keywords, i + 1, requestedValue, lowered, biasedVerbosity)
            ELSE IF ~Contains(lowered, ToLower(kw.Keyword))
            THEN ScanFirst(keywords, i + 1, requestedValue, lowered, biasedVerbosity)
            ELSE LET eff == IF kw.EscalateTo > biasedVerbosity
                            THEN kw.EscalateTo
                            ELSE biasedVerbosity
                 IN [effective |-> eff, autoEscalated |-> eff > biasedVerbosity]

\* FinalClamp that returns the level as it is
FinalClampMissing(effectiveVerbosity) ==
    effectiveVerbosity

\* The closing clamp of ResolveVerbosity: effectiveVerbosity after it
FinalClamp(effectiveVerbosity) ==
    LET c == ClampVerbosity(effectiveVerbosity)
    IN IF c.clamped THEN c.v ELSE effectiveVerbosity

\* ResolveVerbosity of internal/executor/verbosity_escalation.go
ResolveVerbosity(requested, defaultLevel, agentName, lastUserMessage, lister, keywords) ==
    LET rq == RequestedValue(requested, defaultLevel)
        requestedValue == rq.value
        biasedVerbosity == BiasedVerbosity(requestedValue, agentName)
    IN IF ConsultsKeywords(lister, lastUserMessage) /\ lister = "fail"
       THEN ListFailed(rq.warning)
       ELSE LET scan == IF ConsultsKeywords(lister, lastUserMessage)
                        THEN ScanFirst(keywords, 1, requestedValue,
                                       ToLower(lastUserMessage), biasedVerbosity)
                        ELSE [effective |-> biasedVerbosity, autoEscalated |-> FALSE]
                effectiveVerbosity == FinalClamp(scan.effective)
            IN [effective |-> effectiveVerbosity,
                warning   |-> IF scan.autoEscalated
                              THEN joinWarning(rq.warning,
                                       EscalationWarning(requestedValue, effectiveVerbosity))
                              ELSE rq.warning,
                err       |-> Nil]

\* The keyword loop of the later revisions: every keyword that passes is
\* looked at and the highest EscalateTo is kept
RECURSIVE ScanHighest(_, _, _, _, _)
ScanHighest(keywords, i, requestedValue, lowered, highestEscalateTo) ==
    IF i > Len(keywords)
    THEN highestEscalateTo
    ELSE LET kw == keywords[i]
         IN IF kw.Keyword = EmptyStr
            THEN ScanHighest(keywords, i + 1, requestedValue, lowered, highestEscalateTo)
            ELSE IF ~Contains(lowered, ToLower(kw.Keyword))
            THEN ScanHighest(keywords, i + 1, requestedValue, lowered, highestEscalateTo)
            ELSE IF requestedValue < kw.MinRequested
            THEN ScanHighest(keywords, i + 1, requestedValue, lowered, highestEscalateTo)
            ELSE IF requestedValue >= kw.EscalateTo
            THEN ScanHighest(keywords, i + 1, requestedValue, lowered, highestEscalateTo)
            ELSE ScanHighest(keywords, i + 1, requestedValue, lowered,
                     IF kw.EscalateTo > highestEscalateTo
                     THEN kw.EscalateTo
                     ELSE highestEscalateTo)

IsEnabled(kw) == kw.Enabled

\* ResolveVerbosity of the revision that takes the highest escalation
ResolveVerbosityHighest(requested, defaultLevel, agentName, lastUserMessage, lister, keywords) ==
    LET rq == RequestedValue(requested, defaultLevel)
        requestedValue == rq.value
        biasedVerbosity == BiasedVerbosity(requestedValue, agentName)
    IN IF ConsultsKeywords(lister, lastUserMessage) /\ lister = "fail"
       THEN ListFailed(rq.warning)
       ELSE LET highestEscalateTo ==
                    IF ConsultsKeywords(lister, lastUserMessage)
                    THEN ScanHighest(SelectSeq(keywords, IsEnabled), 1, requestedValue,
                                     ToLower(lastUserMessage), biasedVerbosity)
                    ELSE biasedVerbosity
                raised == IF highestEscalateTo > biasedVerbosity
                          THEN highestEscalateTo
                          ELSE biasedVerbosity
                effectiveVerbosity == FinalClamp(raised)
            IN [effective |-> effectiveVerbosity,
                warning   |-> IF effectiveVerbosity > biasedVerbosity
                              THEN joinWarning(rq.warning,
                                       EscalationWarning(requestedValue, effectiveVerbosity))
                              ELSE rq.warning,
                err       |-> Nil]

\* candidateKeywords: the enabled keywords of this agent, then the enabled
\* global ones; keywords of other agents are dropped
CandidateKeywords(keywords, agentName) ==
    LET IsAgent(kw) == kw.Enabled /\ ~kw.Agent.isNil /\ kw.Agent.name = agentName
        IsGlobal(kw) == kw.Enabled /\ kw.Agent.isNil
    IN SelectSeq(keywords, IsAgent) \o SelectSeq(keywords, IsGlobal)

\* ResolveVerbosity of the revision with per-user, per-agent keywords
ResolveVerbosityScoped(requested, defaultLevel, agentName, lastUserMessage, userID, lister, keywords) ==
    LET rq == RequestedValue(requested, defaultLevel)
        requestedValue == rq.value
        biasedVerbosity == BiasedVerbosity(requestedValue, agentName)
        consults == ConsultsKeywords(lister, lastUserMessage) /\ userID # ""
    IN IF consults /\ lister = "fail"
       THEN ListFailed(<<>>)
       ELSE LET highestEscalateTo ==
                    IF consults
                    THEN ScanHighest(CandidateKeywords(keywords, agentName), 1,
                                     requestedValue, ToLower(lastUserMessage),
                                     biasedVerbosity)
                    ELSE biasedVerbosity
                escalated == highestEscalateTo > biasedVerbosity
                raised == IF escalated THEN highestEscalateTo ELSE biasedVerbosity
                effectiveVerbosity == FinalClamp(raised)
            IN [effective |-> effectiveVerbosity,
                warning   |-> IF escalated
                              THEN joinWarning(rq.warning,
                                       EscalationWarning(requestedValue, effectiveVerbosity))
                              ELSE rq.warning,
                err       |-> Nil]

----------------------------------------------------------------------------
(* Calls of ResolveVerbosity *)

MaxLevel == 6

MaxKeywords == 2

Levels == (0 - 1)..MaxLevel

NoInt == [isNil |-> TRUE, value |-> 0]

\* requested *int
RequestedInputs == {NoInt} \cup {[isNil |-> FALSE, value |-> v] : v \in Levels}

DefaultLevels == {0 - 1, 2, MaxLevel}

AgentNames == {GoDev, GoArchitect, <<" ", "G", "O", "-", "D", "E", "V">>, <<"x">>}

KwAB == <<"a", "b">>

KwC == <<"C">>

Messages ==
    { EmptyStr,
      <<" ">>,
      <<"x", "A", "B">>,
      <<"a", "b", " ", "c">> }

Global == [isNil |-> TRUE, name |-> EmptyStr]

ForAgent(name) == [isNil |-> FALSE, name |-> name]

Kw(keyword, minRequested, escalateTo, enabled, agent) ==
    [Keyword |-> keyword, MinRequested |-> minRequested, EscalateTo |-> escalateTo,
     Enabled |-> enabled, Agent |-> agent]

\* store.VerbosityKeyword rows a lister may return
KeywordDomain ==
    { Kw(KwAB, 0, 3, TRUE, Global),
      Kw(KwC, 1, 4, TRUE, Global),
      Kw(KwAB, 0, MaxLevel + 1, TRUE, ForAgent(GoDev)),
      Kw(KwC, 0, 2, TRUE, ForAgent(GoDev)),
      Kw(KwAB, 0, 5, FALSE, Global),
      Kw(EmptyStr, 0, 5, TRUE, Global),
      Kw(KwC, 0, 0 - 1, TRUE, Global),
      Kw(KwAB, 4, 5, TRUE, ForAgent(GoArchitect)) }

KeywordLists == UNION {[1..n -> KeywordDomain] : n \in 0..MaxKeywords}

\* keywordStore: nil, a lister that answers, a lister whose query fails
Listers == {"nil", "ok", "fail"}

UserIDs == {"", "user-1"}

ResolveInputs(userIDs) ==
    { in \in [requested : RequestedInputs, defaultLevel : DefaultLevels,
              agentName : AgentNames, lastUserMessage : Messages,
              userID : userIDs, lister : Listers, keywords : KeywordLists] :
          in.lister # "ok" => in.keywords = <<>> }

CallResolveVerbosity ==
    /\ rv.ver = "none"
    /\ \E in \in ResolveInputs({""}) :
          rv' = [ver |-> "first", in |-> in,
                 out |-> ResolveVerbosity(in.requested, in.defaultLevel, in.agentName,
                             in.lastUserMessage, in.lister, in.keywords)]
    /\ UNCHANGED <<fbVars, vc, stream, kwstore, registry>>

CallResolveVerbosityHighest ==
    /\ rv.ver = "none"
    /\ \E in \in ResolveInputs({""}) :
          rv' = [ver |-> "highest", in |-> in,
                 out |-> ResolveVerbosityHighest(in.requested, in.defaultLevel, in.agentName,
                             in.lastUserMessage, in.lister, in.keywords)]
    /\ UNCHANGED <<fbVars, vc, stream, kwstore, registry>>

CallResolveVerbosityScoped ==
    /\ rv.ver = "none"
    /\ \E in \in ResolveInputs(UserIDs) :
          rv' = [ver |-> "scoped", in |-> in,
                 out |-> ResolveVerbosityScoped(in.requested, in.defaultLevel, in.agentName,
                             in.lastUserMessage, in.userID, in.lister, in.keywords)]
    /\ UNCHANGED <<fbVars, vc, stream, kwstore, registry>>

NextResolve ==
    \/ CallResolveVerbosity
    \/ CallResolveVerbosityHighest
    \/ CallResolveVerbosityScoped

SpecResolve == Init /\ [][NextResolve]_vars

----------------------------------------------------------------------------
(* Properties of ResolveVerbosity *)

Max(a, b) == IF a >= b THEN a ELSE b

Min(a, b) == IF a <= b THEN a ELSE b

Resolved == rv.ver # "none" /\ rv.out.err = Nil

\* the requested level, or the default level when none was requested,
\* clamped into [0,5]
ClampedRequest ==
    LET raw == IF rv.in.requested.isNil THEN rv.in.defaultLevel ELSE rv.in.requested.value
    IN Max(0, Min(5, raw))

\* max(requestedValue, requestedValue + agentBaselineBias(agentName))
BiasedRequest ==
    Max(ClampedRequest, ClampedRequest + agentBaselineBias(rv.in.agentName))

\* C9 as stated: the effective level ResolveVerbosity returns is never
\* lower than biasedVerbosity.
C9_NeverBelowBiased ==
    Resolved => rv.out.effective >= BiasedRequest

\* C9 as amended: the effective level ResolveVerbosity returns without an
\* error is never lower than biasedVerbosity capped at 5.
C9_NeverBelowCappedBiased ==
    Resolved => rv.out.effective >= Min(5, BiasedRequest)

C9_Witness ==
    /\ Resolved
    /\ rv.ver = "highest"
    /\ rv.in.agentName = GoArchitect
    /\ BiasedRequest = 7
    /\ rv.out.effective = 5

C9_WitnessBelowCap ==
    /\ Resolved
    /\ rv.in.agentName = GoDev
    /\ ~rv.in.requested.isNil /\ rv.in.requested.value = 0
    /\ rv.in.keywords = <<>>
    /\ rv.out.effective = 1

\* C10: whenever ResolveVerbosity returns no error, the effective level is
\* at least the clamped requested level (the clamped default level when no
\* level was requested).
C10_NeverBelowRequested ==
    Resolved => rv.out.effective >= ClampedRequest

\* the first revision meets a matching keyword whose target is below the
\* request
C10_Witness ==
    /\ Resolved
    /\ rv.ver = "first"
    /\ ~rv.in.requested.isNil /\ rv.in.requested.value = 3
    /\ rv.in.agentName = <<"x">>
    /\ rv.in.lister = "ok"
    /\ rv.in.lastUserMessage = <<"a", "b", " ", "c">>
    /\ rv.in.keywords = <<Kw(KwC, 0, 2, TRUE, ForAgent(GoDev))>>
    /\ rv.out.effective = 3

C10_WitnessScoped ==
    /\ Resolved
    /\ rv.ver = "scoped"
    /\ rv.in.requested.isNil /\ rv.in.defaultLevel = 2
    /\ rv.in.userID # ""
    /\ rv.in.agentName = GoDev
    /\ rv.in.keywords = <<Kw(KwC, 1, 4, TRUE, Global)>>
    /\ rv.out.effective = 4

\* C11: whatever the requested or default integer, the agent and the
\* keywords' EscalateTo values, the effective level ResolveVerbosity
\* returns lies in [0,5].
C11_EffectiveInRange ==
    rv.ver # "none" => rv.out.effective \in 0..5

\* a keyword with a target above 5 is applied, on top of a request below 0
C11_Witness ==
    /\ Resolved
    /\ rv.ver = "first"
    /\ ~rv.in.requested.isNil /\ rv.in.requested.value = 0 - 1
    /\ rv.in.lastUserMessage = <<"x", "A", "B">>
    /\ rv.in.keywords = <<Kw(KwAB, 0, MaxLevel + 1, TRUE, ForAgent(GoDev))>>
    /\ rv.out.effective = 5

C11_WitnessBias ==
    /\ Resolved
    /\ rv.in.agentName = GoArchitect
    /\ ~rv.in.requested.isNil /\ rv.in.requested.value > 5
    /\ rv.out.effective = 5

\* the revision of ResolveVerbosity that served the recorded call, applied
\* to the recorded inputs with another keyword list
ResolveAgain(keywords) ==
    CASE rv.ver = "first" ->
           ResolveVerbosity(rv.in.requested, rv.in.defaultLevel, rv.in.agentName,
               rv.in.lastUserMessage, rv.in.lister, keywords)
      [] rv.ver = "highest" ->
           ResolveVerbosityHighest(rv.in.requested, rv.in.defaultLevel, rv.in.agentName,
               rv.in.lastUserMessage, rv.in.lister, keywords)
      [] OTHER ->
           ResolveVerbosityScoped(rv.in.requested, rv.in.defaultLevel, rv.in.agentName,
               rv.in.lastUserMessage, rv.in.userID, rv.in.lister, keywords)

\* the keyword source is asked at all
SourceAsked ==
    /\ rv.in.lister # "nil"
    /\ TrimSpace(rv.in.lastUserMessage) # EmptyStr
    /\ rv.ver = "scoped" => rv.in.userID # ""

\* keywords of the list that are in scope for the call: all of them, and in
\* the scoped revision the global ones and those of the current agent
InScope(kw) ==
    rv.ver = "scoped" => (kw.Agent.isNil \/ kw.Agent.name = rv.in.agentName)

\* the three conditions of the specification on one enabled keyword
Passes(kw) ==
    /\ kw.Enabled
    /\ kw.Keyword # EmptyStr
    /\ Contains(ToLower(rv.in.lastUserMessage), ToLower(kw.Keyword))
    /\ ClampedRequest >= kw.MinRequested
    /\ ClampedRequest < kw.EscalateTo

PassingTargets ==
    IF SourceAsked
    THEN {rv.in.keywords[i].EscalateTo :
             i \in {j \in 1..Len(rv.in.keywords) :
                      InScope(rv.in.keywords[j]) /\ Passes(rv.in.keywords[j])}}
    ELSE {}

SetMax(S) == CHOOSE x \in S : \A y \in S : y <= x

HighestPassing ==
    IF PassingTargets = {} THEN BiasedRequest ELSE SetMax(PassingTargets)

Reordered(keywords, p) == [i \in 1..Len(keywords) |-> keywords[p[i]]]

\* C12: the effective level is clamp(max(biasedVerbosity, highest
\* EscalateTo among the enabled keywords that are contained in the message
\* case-insensitively and have MinRequested <= requestedValue <
\* EscalateTo)), and listing the keywords in another order gives the same
\* result.
C12_HighestPassingKeyword ==
    Resolved =>
        /\ rv.out.effective = Max(0, Min(5, Max(BiasedRequest, HighestPassing)))
        /\ \A p \in Permutations(1..Len(rv.in.keywords)) :
              ResolveAgain(Reordered(rv.in.keywords, p)) = rv.out

\* C12 holds of the two later revisions
C12_LaterRevisions ==
    rv.ver \in {"highest", "scoped"} => C12_HighestPassingKeyword

AgentTargets ==
    {rv.in.keywords[i].EscalateTo :
        i \in {j \in 1..Len(rv.in.keywords) :
                 /\ ~rv.in.keywords[j].Agent.isNil
                 /\ rv.in.keywords[j].Agent.name = rv.in.agentName
                 /\ Passes(rv.in.keywords[j])}}

GlobalTargets ==
    {rv.in.keywords[i].EscalateTo :
        i \in {j \in 1..Len(rv.in.keywords) :
                 rv.in.keywords[j].Agent.isNil /\ Passes(rv.in.keywords[j])}}

\* the escalation target when agent-specific matches are preferred
PreferredTarget ==
    IF AgentTargets # {} THEN SetMax(AgentTargets)
    ELSE IF GlobalTargets # {} THEN SetMax(GlobalTargets)
    ELSE BiasedRequest

\* C13: in the revision with agent-scoped keywords, when a keyword of the
\* current agent passes, the escalation target comes from the agent's
\* keywords and not from a global keyword, whatever the global keyword's
\* EscalateTo; keywords of other agents never apply.
C13_AgentSpecificPreferred ==
    (Resolved /\ rv.ver = "scoped" /\ SourceAsked) =>
        rv.out.effective = Max(0, Min(5, Max(BiasedRequest, PreferredTarget)))

\* keywords scoped to another agent never apply
C13_OtherAgentsNeverApply ==
    (Resolved /\ rv.ver = "scoped") =>
        LET NotForeign(kw) == kw.Agent.isNil \/ kw.Agent.name = rv.in.agentName
        IN ResolveAgain(SelectSeq(rv.in.keywords, NotForeign)) = rv.out

RawRequest ==
    IF rv.in.requested.isNil THEN rv.in.defaultLevel ELSE rv.in.requested.value

HasNotice == \E i \in 1..Len(rv.out.warning) : rv.out.warning[i].kind = "auto-escalated"

HasClampWarning == \E i \in 1..Len(rv.out.warning) : rv.out.warning[i].kind = "clamped"

ExpectedNotice == [kind |-> "auto-escalated", from |-> ClampedRequest, to |-> rv.out.effective]

ExpectedClampWarning == [kind |-> "clamped", from |-> RawRequest, to |-> ClampedRequest]

\* Scenario B: requested 1, an agent without bias, a matching enabled
\* keyword with MinRequested 0 and EscalateTo 3
ScenarioB ==
    /\ ~rv.in.requested.isNil /\ rv.in.requested.value = 1
    /\ rv.in.agentName = <<"x">>
    /\ rv.in.lister = "ok"
    /\ rv.ver = "scoped" => rv.in.userID # ""
    /\ rv.in.lastUserMessage = <<"x", "A", "B">>
    /\ rv.in.keywords = <<Kw(KwAB, 0, 3, TRUE, Global)>>

\* C14: the warning carries an auto-escalation notice exactly when the
\* effective level is above biasedVerbosity; the notice names the requested
\* and the effective level; a clamp warning, when present, comes first.
C14_NoticeIffEscalated ==
    Resolved =>
        /\ HasNotice <=> (rv.out.effective > BiasedRequest)
        /\ rv.out.warning =
              (IF HasClampWarning THEN <<ExpectedClampWarning>> ELSE <<>>)
              \o (IF HasNotice THEN <<ExpectedNotice>> ELSE <<>>)
        /\ ScenarioB =>
              /\ rv.out.effective = 3
              /\ rv.out.warning = <<[kind |-> "auto-escalated", from |-> 1, to |-> 3]>>

\* C14 holds of the revision that compares after the closing clamp
C14_HighestRevision ==
    rv.ver = "highest" => C14_NoticeIffEscalated

\* the bias of the agent whose name is spelled exactly as given
NamedBias ==
    CASE rv.in.agentName = GoDev -> 1
      [] rv.in.agentName = GoArchitect -> 2
      [] OTHER -> 0

\* the bias of the agent named, whatever the case and surrounding blanks
NormalisedBias ==
    LET n == TrimSpace(ToLower(rv.in.agentName))
    IN CASE n = GoDev -> 1
         [] n = GoArchitect -> 2
         [] OTHER -> 0

\* Scenario A: requested 0, agent "go-dev", no keyword matches
ScenarioA ==
    /\ ~rv.in.requested.isNil /\ rv.in.requested.value = 0
    /\ rv.in.agentName = GoDev

NoKeywordPasses(bias) ==
    Resolved /\ PassingTargets = {} =>
        /\ rv.out.effective = Min(5, ClampedRequest + bias)
        /\ ~HasNotice
        /\ HasClampWarning <=> RawRequest \notin 0..5
        /\ ScenarioA => rv.out.effective = 1 /\ rv.out.warning = <<>>

\* C15 as stated: when no keyword passes, the effective level is
\* min(5, requestedValue + bias), with bias 2 for "go-architect", 1 for
\* "go-dev" and 0 for every other agent name, there is no escalation notice,
\* and a clamp warning is returned only for a request outside [0,5].
C15_NoKeywordPasses == NoKeywordPasses(NamedBias)

\* C15 amended: the same, the agent being recognised by its name in lower
\* case without surrounding blanks, so that " GO-DEV" has the bias of "go-dev".
C15_NoKeywordPassesNormalised == NoKeywordPasses(NormalisedBias)

C15_Witness ==
    /\ Resolved /\ SourceAsked /\ PassingTargets = {}
    /\ Len(rv.in.keywords) > 0
    /\ rv.in.agentName = <<" ", "G", "O", "-", "D", "E", "V">>
    /\ ClampedRequest = 2 /\ rv.out.effective = 3

\* Scenario A is reached with a keyword list in which nothing matches
C15_WitnessScenarioA ==
    /\ Resolved /\ SourceAsked /\ PassingTargets = {} /\ ScenarioA
    /\ Len(rv.in.keywords) > 0
    /\ rv.out.effective = 1

\* the keyword source was asked and its list call failed
ListCallFailed == SourceAsked /\ rv.in.lister = "fail"

\* C16: when the list call of the keyword source fails, ResolveVerbosity
\* returns that error, the level returned with it is the zero value whatever
\* the biased and default levels are, and no escalation notice is produced;
\* no other call returns an error.
C16_ListFailurePropagates ==
    rv.ver # "none" =>
        /\ ListCallFailed =>
              /\ rv.out.err = ListError
              /\ rv.out.effective = 0
              /\ ~HasNotice
        /\ rv.out.err # Nil => ListCallFailed

C16_Witness ==
    /\ rv.ver # "none" /\ ListCallFailed
    /\ rv.in.requested.isNil /\ rv.in.defaultLevel = 2
    /\ BiasedRequest = 4
    /\ rv.out.err = ListError /\ rv.out.effective = 0

C16_WitnessScoped ==
    /\ rv.ver = "scoped" /\ ListCallFailed
    /\ RawRequest = MaxLevel
    /\ rv.out = [effective |-> 0, warning |-> <<>>, err |-> ListError]

----------------------------------------------------------------------------
(* Calls of ClampVerbosity and MaxTokens *)

MaxInput == 40

\* value int, verbosity int
Inputs == (0 - MaxInput)..MaxInput

CallClampVerbosity ==
    /\ vc.fn = "none"
    /\ \E value \in Inputs :
          vc' = [fn |-> "ClampVerbosity", in |-> value,
                 clamp |-> ClampVerbosity(value), tokens |-> 0]
    /\ UNCHANGED <<fbVars, rv, stream, kwstore, registry>>

CallMaxTokens ==
    /\ vc.fn = "none"
    /\ \E verbosity \in Inputs :
          vc' = [fn |-> "MaxTokens", in |-> verbosity,
                 clamp |-> NoCall.clamp, tokens |-> MaxTokens(verbosity)]
    /\ UNCHANGED <<fbVars, rv, stream, kwstore, registry>>

CallMaxTokensBudget ==
    /\ vc.fn = "none"
    /\ \E verbosity \in Inputs :
          vc' = [fn |-> "MaxTokensBudget", in |-> verbosity,
                 clamp |-> NoCall.clamp, tokens |-> MaxTokensBudget(verbosity)]
    /\ UNCHANGED <<fbVars, rv, stream, kwstore, registry>>

NextVerbosity ==
    \/ CallClampVerbosity
    \/ CallMaxTokens
    \/ CallMaxTokensBudget

SpecVerbosity == Init /\ [][NextVerbosity]_vars

----------------------------------------------------------------------------
(* Properties of ClampVerbosity and MaxTokens *)

\* C17: ClampVerbosity(v) returns a value in [0,5] and a flag that is true
\* exactly when v < 0 or v > 5; the value is v for v in [0,5], 0 for v < 0
\* and 5 for v > 5.
C17_ClampVerbosity ==
    vc.fn = "ClampVerbosity" =>
        /\ vc.clamp.v \in 0..5
        /\ vc.clamp.clamped <=> (vc.in < 0 \/ vc.in > 5)
        /\ vc.in \in 0..5 => vc.clamp.v = vc.in
        /\ vc.in < 0 => vc.clamp.v = 0
        /\ vc.in > 5 => vc.clamp.v = 5

C17_Witness ==
    /\ vc.fn = "ClampVerbosity" /\ vc.in < 0 - 1
    /\ vc.clamp = [v |-> 0, clamped |-> TRUE]

C17_WitnessAbove ==
    /\ vc.fn = "ClampVerbosity" /\ vc.in = 6
    /\ vc.clamp = [v |-> 5, clamped |-> TRUE]

C17_WitnessInside ==
    /\ vc.fn = "ClampVerbosity" /\ vc.in = 5
    /\ vc.clamp = [v |-> 5, clamped |-> FALSE]

\* MaxTokens of the revision that served the recorded call
TokensOf(verbosity) ==
    IF vc.fn = "MaxTokens" THEN MaxTokens(verbosity) ELSE MaxTokensBudget(verbosity)

\* C18: MaxTokens is positive and strictly increasing on levels 0..4, and
\* MaxTokens(5) is a sentinel: not a usable (positive) token limit and
\* different from the budget of every other level.
C18_MaxTokensMonotonicWithSentinel ==
    vc.fn \in {"MaxTokens", "MaxTokensBudget"} =>
        /\ vc.in \in 0..4 => vc.tokens > 0
        /\ vc.in \in 0..3 => vc.tokens < TokensOf(vc.in + 1)
        /\ vc.in = 5 =>
              /\ vc.tokens <= 0
              /\ \A v \in 0..4 : vc.tokens # TokensOf(v)

\* C18 holds of the revision that returns -1 for level 5
C18_SentinelRevision ==
    vc.fn = "MaxTokens" => C18_MaxTokensMonotonicWithSentinel

\* in both revisions the budgets of levels 0..4 are positive and increasing
C18_IncreasingToFour ==
    vc.fn \in {"MaxTokens", "MaxTokensBudget"} =>
        /\ vc.in \in 0..4 => vc.tokens > 0
        /\ vc.in \in 0..3 => vc.tokens < TokensOf(vc.in + 1)

----------------------------------------------------------------------------
(* Properties of the local executor's requests *)

\* the model the configuration asks for
ConfiguredModel ==
    IF cfg.ModelOverride # EmptyStr THEN cfg.ModelOverride
    ELSE IF ~cfg.Profile.isNil THEN cfg.Profile.LocalModel
    ELSE DefaultModel

\* the requests to the local runtime that name a model
NamesModel(i) == calls[i].op \in {"pull", "chat"}

\* C19: the model named to the local runtime is cfg.ModelOverride when that
\* is non-empty, else cfg.Profile.LocalModel when a profile is set, else the
\* runtime's default model, whichever path led to the local runtime.
C19_LocalModelSelection ==
    \A i \in 1..Len(calls) : NamesModel(i) => calls[i].model = ConfiguredModel

\* C19 holds whenever the override is not made of blanks only
C19_UnlessBlankOverride ==
    TrimSpace(cfg.ModelOverride) # EmptyStr \/ cfg.ModelOverride = EmptyStr
        => C19_LocalModelSelection

\* C20: the chat request of the local executor carries num_predict =
\* MaxTokens(verbosity) for every verbosity in 0..4, carries no options at
\* all when verbosity is 5, and never carries the sentinel MaxTokens(5).
C20_NumPredictIsMaxTokens ==
    \A i \in 1..Len(calls) :
        calls[i].op = "chat" =>
            /\ cfg.Verbosity \in 0..4 =>
                  calls[i].options = [isNil |-> FALSE, num_predict |-> MaxTokens(cfg.Verbosity)]
            /\ cfg.Verbosity = 5 => calls[i].options = NoOptions
            /\ ~calls[i].options.isNil => calls[i].options.num_predict # MaxTokens(5)

\* in both revisions of the executor, level 5 sends no token limit and the
\* sentinel is never sent
C20_NoLimitAtFive ==
    \A i \in 1..Len(calls) :
        calls[i].op = "chat" =>
            /\ cfg.Verbosity = 5 => calls[i].options = NoOptions
            /\ ~calls[i].options.isNil => calls[i].options.num_predict > 0

----------------------------------------------------------------------------
(* Properties of HTTPExecutor *)

\* C21: Available returns ok = true only when GET {baseURL}/health was
\* answered with status 200, and then with a nil error; a transport error
\* (a timeout included) or another status gives ok = false and a non-nil
\* error: never (false, nil), never (true, error).
C21_AvailableOkOnly200 ==
    health.called =>
        /\ health.ok <=> (~health.resp.transportErr /\ health.resp.status = 200)
        /\ health.ok => health.err = Nil
        /\ ~health.ok => health.err # Nil

C21_Witness ==
    /\ health.called /\ ~health.resp.transportErr /\ health.resp.status = 503
    /\ ~health.ok /\ health.err = Errorf("health check status")

C21_WitnessHealthy ==
    /\ health.called /\ health.resp.status = 200
    /\ health.ok /\ health.err = Nil

\* C22: Execute returns a reply with a nil error only when POST
\* {baseURL}/execute was answered with status 200 and a decodable body whose
\* reply is non-empty; every other answer gives an empty reply and a
\* non-nil error.
C22_ExecuteReplyOnly200 ==
    remote.called =>
        /\ remote.err = Nil <=>
              /\ ~remote.resp.transportErr
              /\ remote.resp.status = 200
              /\ remote.resp.json
              /\ remote.resp.reply # ""
        /\ remote.err = Nil => remote.reply = remote.resp.reply /\ remote.reply # ""
        /\ remote.err # Nil => remote.reply = ""

C22_Witness ==
    /\ remote.called /\ remote.resp.status = 200 /\ remote.resp.json
    /\ remote.resp.reply = ""
    /\ remote.reply = "" /\ remote.err = Errorf("empty reply")

C22_WitnessReply ==
    /\ remote.called /\ remote.err = Nil /\ remote.reply = RemoteAnswer

----------------------------------------------------------------------------
(* AskWithStreaming *)

MaxLines == 3

\* Answers of POST /api/chat with stream: true, up to the status line
StreamResponses ==
    { [transportErr |-> TRUE,  status |-> 0],
      [transportErr |-> FALSE, status |-> 500],
      [transportErr |-> FALSE, status |-> 200] }

Line(empty, json, error, content) ==
    [empty |-> empty, json |-> json, error |-> error, content |-> content]

\* The lines scanner.Text() may yield, as json.Unmarshal reads them
StreamLines ==
    { Line(TRUE,  FALSE, "", <<>>),
      Line(FALSE, FALSE, "", <<>>),
      Line(FALSE, TRUE,  "model crashed", <<>>),
      Line(FALSE, TRUE,  "model crashed", <<"a">>),
      Line(FALSE, TRUE,  "", <<>>),
      Line(FALSE, TRUE,  "", <<"a">>),
      Line(FALSE, TRUE,  "", <<"b", "c">>) }

\* What onDelta may return
CallbackResults == {Nil, Errorf("client gone")}

\* What scanner.Err() may return once scanner.Scan() is false
ScannerErrs == {Nil, Errorf("unexpected EOF")}

StreamReturns(reply, err) ==
    [stream EXCEPT !.pc = "done",
                   !.ret = [returned |-> TRUE, reply |-> reply, err |-> err]]

\* AskWithStreaming(model, messages, options, onDelta) is called
StartAskWithStreaming(onDelta) ==
    /\ stream.pc = "idle"
    /\ stream' = [NoStream EXCEPT !.pc = "request", !.onDelta = onDelta]
    /\ UNCHANGED <<fbVars, rv, vc, kwstore, registry>>

\* http.DefaultClient.Do(httpReq) and the status test
StreamRequest(resp) ==
    /\ stream.pc = "request"
    /\ stream' = IF resp.transportErr
                 THEN StreamReturns(EmptyStr, Errorf("stream transport error"))
                 ELSE IF resp.status # 200
                 THEN StreamReturns(EmptyStr, Errorf("ollama returned status"))
                 ELSE [stream EXCEPT !.pc = "scan"]
    /\ UNCHANGED <<fbVars, rv, vc, kwstore, registry>>

\* ScanLine going on with the stream after onDelta returned an error
ScanLineIgnoresCallback(line, cb) ==
    LET s == [stream EXCEPT !.read = Append(stream.read, line)]
    IN IF line.empty THEN s
       ELSE IF ~line.json
       THEN [StreamReturns(EmptyStr, Errorf("parse streaming response")) EXCEPT !.read = s.read]
       ELSE IF line.error # ""
       THEN [StreamReturns(EmptyStr, Errorf(line.error)) EXCEPT !.read = s.read]
       ELSE IF line.content = EmptyStr THEN s
       ELSE IF stream.onDelta = "nil"
       THEN [s EXCEPT !.fullResponse = stream.fullResponse \o line.content]
       ELSE [s EXCEPT !.fullResponse = stream.fullResponse \o line.content,
                      !.delivered = Append(stream.delivered, line.content),
                      !.cbErr = IF stream.cbErr # Nil THEN stream.cbErr ELSE cb]

\* one pass of the loop `for scanner.Scan()` on a line; cb is what onDelta
\* returns if it is invoked
ScanLine(line, cb) ==
    LET s == [stream EXCEPT !.read = Append(stream.read, line)]
    IN IF line.empty THEN s
       ELSE IF ~line.json
       THEN [StreamReturns(EmptyStr, Errorf("parse streaming response")) EXCEPT !.read = s.read]
       ELSE IF line.error # ""
       THEN [StreamReturns(EmptyStr, Errorf(line.error)) EXCEPT !.read = s.read]
       ELSE IF line.content = EmptyStr THEN s
       ELSE IF stream.onDelta = "nil"
       THEN [s EXCEPT !.fullResponse = stream.fullResponse \o line.content]
       ELSE IF cb # Nil
       THEN [StreamReturns(EmptyStr, Wrapf("delta callback error", cb)) EXCEPT
                 !.read = s.read,
                 !.fullResponse = stream.fullResponse \o line.content,
                 !.delivered = Append(stream.delivered, line.content),
                 !.cbErr = cb]
       ELSE [s EXCEPT !.fullResponse = stream.fullResponse \o line.content,
                      !.delivered = Append(stream.delivered, line.content)]

StreamLine(line, cb) ==
    /\ stream.pc = "scan"
    /\ Len(stream.read) < MaxLines
    /\ stream' = ScanLine(line, cb)
    /\ UNCHANGED <<fbVars, rv, vc, kwstore, registry>>

\* scanner.Scan() returned false: scanner.Err() and the final return
StreamEnd(err) ==
    /\ stream.pc = "scan"
    /\ stream' = IF err # Nil
                 THEN StreamReturns(EmptyStr, Wrapf("read streaming response", err))
                 ELSE StreamReturns(stream.fullResponse, Nil)
    /\ UNCHANGED <<fbVars, rv, vc, kwstore, registry>>

NextStream ==
    \/ \E onDelta \in {"nil", "set"} : StartAskWithStreaming(onDelta)
    \/ \E resp \in StreamResponses : StreamRequest(resp)
    \/ \E line \in StreamLines, cb \in CallbackResults : StreamLine(line, cb)
    \/ \E err \in ScannerErrs : StreamEnd(err)

SpecStream == Init /\ [][NextStream]_vars

----------------------------------------------------------------------------
(* Properties of AskWithStreaming *)

\* a line that carries a fragment: a chunk without error and with content
CarriesFragment(line) ==
    ~line.empty /\ line.json /\ line.error = "" /\ line.content # EmptyStr

FragmentsOf(lines) ==
    LET kept == SelectSeq(lines, CarriesFragment)
    IN [i \in 1..Len(kept) |-> kept[i].content]

RECURSIVE Flatten(_)
Flatten(fragments) ==
    IF fragments = <<>> THEN <<>>
    ELSE Head(fragments) \o Flatten(Tail(fragments))

StreamSucceeded == stream.ret.returned /\ stream.ret.err = Nil

\* C23: with a chunk callback, the callback has been invoked once for every
\* non-empty fragment read, in arrival order; once an invocation returned an
\* error the call is over with that error, that invocation being the last;
\* on success the reply is the concatenation of the fragments passed to the
\* callback.
C23_StreamingCallback ==
    stream.onDelta = "set" =>
        /\ stream.delivered = FragmentsOf(stream.read)
        /\ stream.cbErr # Nil =>
              /\ stream.pc = "done" /\ stream.ret.returned
              /\ stream.ret.err = Wrapf("delta callback error", stream.cbErr)
              /\ stream.ret.reply = EmptyStr
              /\ CarriesFragment(stream.read[Len(stream.read)])
        /\ StreamSucceeded => stream.ret.reply = Flatten(stream.delivered)

\* once AskWithStreaming has returned the callback is not invoked any more
C23_NoCallbackAfterReturn ==
    [][stream.ret.returned => stream'.delivered = stream.delivered]_vars

C23_Witness ==
    /\ stream.onDelta = "set" /\ StreamSucceeded
    /\ stream.delivered = << <<"b", "c">>, <<"a">> >>
    /\ Len(stream.read) = 3
    /\ stream.ret.reply = <<"b", "c", "a">>

C23_WitnessAbort ==
    /\ stream.onDelta = "set" /\ stream.cbErr # Nil
    /\ Len(stream.delivered) = 2 /\ stream.ret.returned

----------------------------------------------------------------------------
(* Termination of ExecuteWithFallback *)

\* The two remote round trips end by themselves: NewHTTPExecutor gives the
\* client a timeout, so an answer or a transport error always comes.
RemoteStepsEnd ==
    /\ WF_vars(\E resp \in HealthResponses : ProbeRemote(resp))
    /\ WF_vars(\E resp \in ExecuteResponses : RemoteExecute(resp))

\* The round trips to the local runtime go through http.Get and
\* http.DefaultClient, which have no timeout: they end only if the runtime
\* answers, so no fairness is assumed of EnsureModel, PullModel and LocalChat.
SpecLive == Spec /\ RemoteStepsEnd

\* C24: every call of ExecuteWithFallback eventually returns a result or an
\* error, whatever the peer and the local runtime do.
C24_EveryCallTerminates == (pc \notin {"idle", "done"}) ~> Done

----------------------------------------------------------------------------
(* Properties of the local execution *)

\* position of the first request with this operation in the current call
FirstIndex(op) == CHOOSE i \in 1..Len(calls) : calls[i].op = op /\ \A j \in 1..(i - 1) : calls[j].op # op

EnsureErrors ==
    { Errorf("tags transport error"), Errorf("ollama tags status"), Errorf("tags decode error"),
      Errorf("pull transport error"), Errorf("ollama pull status") }

\* C25: in a local execution the chat request comes after the model list
\* query of the same call, and only when the model was listed or its pull
\* succeeded; a failed list query or pull ends the call with that error and
\* without chat request; the model list is queried in every call, also when
\* an earlier call has found or pulled the model.
C25_ChatOnlyAfterModelEnsured ==
    /\ (Issued("pull") \/ Issued("chat") \/ pc \in {"pull", "chat"}) =>
          /\ Count("tags") = 1
          /\ \A i \in 1..Len(calls) :
                calls[i].op \in {"pull", "chat"} => FirstIndex("tags") < i
    /\ Issued("chat") =>
          /\ SelectedModel(localModel) \in installed
          /\ Issued("pull") => FirstIndex("pull") < FirstIndex("chat")
    /\ Issued("pull") => Count("pull") = 1
    /\ (local.called /\ local.err \in EnsureErrors) =>
          /\ ~Issued("chat")
          /\ Done /\ ret.err = local.err

C25_Witness ==
    /\ Done /\ local.called /\ local.err = Nil
    /\ Issued("tags") /\ Issued("pull") /\ Issued("chat")

\* a later call asks for the model list again although the model is there
C25_WitnessAsksAgain ==
    /\ pc = "chat" /\ SelectedModel(localModel) \in installed
    /\ Issued("tags") /\ ~Issued("pull")

C25_WitnessPullFailed ==
    /\ Done /\ local.err = Errorf("ollama pull status") /\ ~Issued("chat")

----------------------------------------------------------------------------
(* Properties of ResolveVerbosity: the keyword source *)

NoSourceOrBlankMessage ==
    rv.in.lister = "nil" \/ TrimSpace(rv.in.lastUserMessage) = EmptyStr

\* C26: when the last user message is empty or blank, or no keyword source
\* is given, the keyword source is not called: no error is returned even if
\* the source would fail, the result does not depend on the keywords the
\* source holds, the effective level is clamp(biasedVerbosity) and there is
\* no escalation notice.
C26_SourceNotCalled ==
    (rv.ver # "none" /\ NoSourceOrBlankMessage) =>
        /\ rv.out.err = Nil
        /\ rv.out.effective = Max(0, Min(5, BiasedRequest))
        /\ ~HasNotice
        /\ rv.out = ResolveAgain(<<>>)

C26_Witness ==
    /\ rv.ver # "none" /\ rv.in.lister = "fail"
    /\ rv.in.lastUserMessage = <<" ">>
    /\ rv.in.agentName = GoDev /\ ClampedRequest = 2
    /\ rv.out.err = Nil /\ rv.out.effective = 3

C26_WitnessKeywords ==
    /\ rv.ver # "none" /\ rv.in.lister = "ok"
    /\ rv.in.lastUserMessage = EmptyStr
    /\ Len(rv.in.keywords) = MaxKeywords
    /\ rv.out.effective = BiasedRequest

----------------------------------------------------------------------------
(* Keyword administration: handleVerbosityKeywords, handleVerbosityKeyword *)

MaxKeywordLevel == 1

KeywordLevels == 0..MaxKeywordLevel

\* *int and *bool fields of a request body
IntPtrs == {NoPtr} \cup {[isNil |-> FALSE, value |-> v] : v \in KeywordLevels}

BoolPtrs == {NoBoolPtr, [isNil |-> FALSE, value |-> FALSE]}

PatchInputs == [MinRequested : IntPtrs, EscalateTo : IntPtrs, Enabled : BoolPtrs]

Row(minRequested, escalateTo, enabled) ==
    [present |-> TRUE, MinRequested |-> minRequested, EscalateTo |-> escalateTo,
     Enabled |-> enabled]

\* POST /verbosity/keywords: validation, then CreateVerbosityKeyword
PostKeyword(keyword, minRequested, escalateTo, enabledPtr) ==
    /\ ~minRequested.isNil
    /\ ~escalateTo.isNil
    /\ ~(escalateTo.value < minRequested.value)
    /\ ~kwstore.rows[keyword].present
    /\ kwstore' = [kwstore EXCEPT !.rows[keyword] =
                      Row(minRequested.value, escalateTo.value,
                          IF enabledPtr.isNil THEN TRUE ELSE enabledPtr.value)]
    /\ UNCHANGED <<fbVars, rv, vc, stream, registry>>

\* PATCH /verbosity/keywords/{keyword} up to the call of
\* UpdateVerbosityKeyword: ListVerbosityKeywords and the test of the merged
\* values; a request that is answered 400 or 404 leaves nothing behind
PatchValidate(p, keyword, input) ==
    /\ kwstore.patch[p].pc = "idle"
    /\ ~(input.MinRequested.isNil /\ input.EscalateTo.isNil /\ input.Enabled.isNil)
    /\ LET existing == kwstore.rows[keyword]
           minRequested == IF input.MinRequested.isNil THEN existing.MinRequested
                           ELSE input.MinRequested.value
           escalateTo == IF input.EscalateTo.isNil THEN existing.EscalateTo
                         ELSE input.EscalateTo.value
       IN /\ existing.present
          /\ ~(escalateTo < minRequested)
          /\ kwstore' = [kwstore EXCEPT !.patch[p] =
                            [pc |-> "update", keyword |-> keyword, input |-> input]]
    /\ UNCHANGED <<fbVars, rv, vc, stream, registry>>

\* PostgresStore.UpdateVerbosityKeyword: UPDATE ... SET the given columns
\* WHERE keyword = $n; sql.ErrNoRows when the row is gone
PatchUpdate(p) ==
    /\ kwstore.patch[p].pc = "update"
    /\ LET h == kwstore.patch[p]
           row == kwstore.rows[h.keyword]
           updated == Row(IF h.input.MinRequested.isNil THEN row.MinRequested
                          ELSE h.input.MinRequested.value,
                          IF h.input.EscalateTo.isNil THEN row.EscalateTo
                          ELSE h.input.EscalateTo.value,
                          IF h.input.Enabled.isNil THEN row.Enabled
                          ELSE h.input.Enabled.value)
       IN kwstore' = [kwstore EXCEPT !.patch[p] = IdlePatch,
                                     !.rows[h.keyword] = IF row.present THEN updated ELSE row]
    /\ UNCHANGED <<fbVars, rv, vc, stream, registry>>

\* DELETE /verbosity/keywords/{keyword}
DeleteKeyword(keyword) ==
    /\ kwstore.rows[keyword].present
    /\ kwstore' = [kwstore EXCEPT !.rows[keyword] = NoRow]
    /\ UNCHANGED <<fbVars, rv, vc, stream, registry>>

NextKeywords ==
    \/ \E keyword \in KeywordKeys, minRequested \in IntPtrs, escalateTo \in IntPtrs,
          enabledPtr \in BoolPtrs : PostKeyword(keyword, minRequested, escalateTo, enabledPtr)
    \/ \E p \in PatchHandlers, keyword \in KeywordKeys, input \in PatchInputs :
          PatchValidate(p, keyword, input)
    \/ \E p \in PatchHandlers : PatchUpdate(p)
    \/ \E keyword \in KeywordKeys : DeleteKeyword(keyword)

SpecKeywords == Init /\ [][NextKeywords]_vars

----------------------------------------------------------------------------
(* Properties of the keyword administration *)

\* C27: after any sequence of create and update requests, PATCH requests
\* on one keyword that interleave included, every stored keyword has
\* EscalateTo >= MinRequested.
C27_StoredKeywordsOrdered ==
    \A k \in KeywordKeys :
        kwstore.rows[k].present => kwstore.rows[k].EscalateTo >= kwstore.rows[k].MinRequested

----------------------------------------------------------------------------
(* Properties of ExecuteWithFallback: order of the steps *)

IndicesOf(ops) == {i \in 1..Len(calls) : calls[i].op \in ops}

\* C28: within one call the health probe is issued at most once, the remote
\* execute call at most once and only after a probe of that call reported
\* healthy, the local runtime is executed at most once (one model list
\* query, at most one pull, at most one chat) and only after every remote
\* step; no remote step follows a step of the local execution.
C28_EachStepOnceInOrder ==
    /\ Count("health") <= 1 /\ Count("execute") <= 1
    /\ Count("tags") <= 1 /\ Count("pull") <= 1 /\ Count("chat") <= 1
    /\ Issued("execute") =>
          /\ health.called /\ health.ok
          /\ FirstIndex("health") < FirstIndex("execute")
    /\ pc = "execute" => health.called /\ health.ok
    /\ \A i \in IndicesOf(LocalOps), j \in IndicesOf(RemoteOps) : j < i
    /\ (pc \in LocalStages /\ Issued("execute")) => remote.called
    /\ (pc \in LocalStages /\ Issued("health")) => health.called

C28_Witness ==
    /\ Done /\ tag = "fallback"
    /\ Count("health") = 1 /\ Count("execute") = 1
    /\ Count("tags") = 1 /\ Count("pull") = 1 /\ Count("chat") = 1
    /\ remote.err # Nil /\ local.err = Nil

----------------------------------------------------------------------------
(* Agent registry: package agent and the /api/agents handlers *)
(* One agent id is modelled; its ID and Model are never empty. *)

MaxRevision == 3

\* values of the name column; "" is the name validateAgent rejects
RecordNames == {"", "a", "b"}

AgentRecord(name, revision) == [isNil |-> FALSE, Name |-> name, Revision |-> revision]

\* the decoded body of a PATCH request: its "name" key, if it has one
AgentPatchInputs ==
    {[hasName |-> FALSE, name |-> ""]} \cup {[hasName |-> TRUE, name |-> n] : n \in RecordNames}

validateAgent(agent) ==
    IF agent.Name = "" THEN Errorf("agent name is required") ELSE Nil

\* Repository.Create: the row it inserts
Create(agent) == [agent EXCEPT !.Revision = 1]

\* Repository.Update on the table row `row`: the row afterwards, the record
\* the caller holds afterwards, and the error returned
Update(row, agent) ==
    IF validateAgent(agent) # Nil
    THEN [row |-> row, agent |-> agent, err |-> validateAgent(agent)]
    ELSE LET incremented == [agent EXCEPT !.Revision = @ + 1]
         IN IF row.isNil
            THEN [row |-> row, agent |-> incremented, err |-> Errorf("agent not found")]
            ELSE [row |-> incremented, agent |-> incremented, err |-> Nil]

\* INSERT ... ON CONFLICT (id) DO UPDATE ... WHERE EXCLUDED.revision >=
\* agents.revision: the Postgres row afterwards
upsertToPostgres(row, agent) ==
    IF row.isNil THEN agent
    ELSE IF agent.Revision >= row.Revision THEN agent ELSE row

\* POST /api/agents: Get finds no row, Create validates and inserts
HandlePost(name) ==
    /\ registry.sqlite.isNil
    /\ validateAgent(AgentRecord(name, 0)) = Nil
    /\ registry' = [registry EXCEPT !.sqlite = Create(AgentRecord(name, 0))]
    /\ UNCHANGED <<fbVars, rv, vc, stream, kwstore>>

\* PATCH /api/agents/{id}, first half: Get, then the body's keys are applied
\* to the record read
HandlePatchGet(p, input) ==
    /\ registry.patch[p].pc = "idle"
    /\ ~registry.sqlite.isNil
    /\ registry' = [registry EXCEPT !.patch[p] =
           [pc |-> "got",
            existing |-> IF input.hasName THEN [registry.sqlite EXCEPT !.Name = input.name]
                         ELSE registry.sqlite,
            err |-> Nil]]
    /\ UNCHANGED <<fbVars, rv, vc, stream, kwstore>>

\* PATCH /api/agents/{id}, second half: Update of the record read, response
HandlePatchUpdate(p) ==
    /\ registry.patch[p].pc = "got"
    /\ registry.patch[p].existing.Revision < MaxRevision
    /\ LET updated == Update(registry.sqlite, registry.patch[p].existing)
       IN registry' = [registry EXCEPT !.sqlite = updated.row,
                                       !.patch[p] = [pc |-> "idle", existing |-> NoAgent,
                                                     err |-> updated.err]]
    /\ UNCHANGED <<fbVars, rv, vc, stream, kwstore>>

\* DELETE /api/agents/{id} of an agent that exists
HandleDelete ==
    /\ ~registry.sqlite.isNil
    /\ registry' = [registry EXCEPT !.sqlite = NoAgent]
    /\ UNCHANGED <<fbVars, rv, vc, stream, kwstore>>

\* SyncToPostgres, first half: repo.List()
SyncList ==
    /\ registry.sync.pc = "idle"
    /\ ~registry.sqlite.isNil
    /\ registry' = [registry EXCEPT !.sync = [pc |-> "listed", agent |-> registry.sqlite]]
    /\ UNCHANGED <<fbVars, rv, vc, stream, kwstore>>

\* SyncToPostgres, second half: upsertToPostgres of the agent listed
SyncUpsert ==
    /\ registry.sync.pc = "listed"
    /\ registry' = [registry EXCEPT
           !.postgres = upsertToPostgres(registry.postgres, registry.sync.agent),
           !.sync = IdleSync]
    /\ UNCHANGED <<fbVars, rv, vc, stream, kwstore>>

NextAgents ==
    \/ \E name \in RecordNames : HandlePost(name)
    \/ \E p \in AgentHandlers, input \in AgentPatchInputs : HandlePatchGet(p, input)
    \/ \E p \in AgentHandlers : HandlePatchUpdate(p)
    \/ HandleDelete
    \/ SyncList
    \/ SyncUpsert

SpecAgents == Init /\ [][NextAgents]_vars

\* C29: the stored revision of an agent is a monotonic counter: the row
\* Create inserts has revision 1, and every Update that returns nil leaves a
\* stored revision strictly greater than the one stored before it, also when
\* PATCH requests interleave between their Get and their Update.
C29_RevisionMonotonic ==
    [][/\ (registry.sqlite.isNil /\ ~registry'.sqlite.isNil) =>
              registry'.sqlite.Revision = 1
       /\ \A p \in AgentHandlers :
              (HandlePatchUpdate(p) /\ registry'.patch[p].err = Nil) =>
                  registry'.sqlite.Revision > registry.sqlite.Revision]_vars

\* C30: SyncToPostgres overwrites an existing Postgres row only if the
\* revision of the agent listed from SQLite is newer than the row's; a row
\* of equal or higher revision is left unchanged, and an agent absent from
\* Postgres is inserted.
C30_SyncOverwritesOnlyNewer ==
    [][SyncUpsert =>
          /\ registry.postgres.isNil => registry'.postgres = registry.sync.agent
          /\ (~registry.postgres.isNil
                 /\ registry.postgres.Revision >= registry.sync.agent.Revision) =>
                 registry'.postgres = registry.postgres
          /\ (~registry.postgres.isNil /\ registry'.postgres # registry.postgres) =>
                 registry.sync.agent.Revision > registry.postgres.Revision]_vars

====
